---- MODULE Spec2Model ----
(***************************************************************************)
(* State-machine model of src/main.py (the Ticky ticket bot).              *)
(*                                                                         *)
(* The store is the two sqlite tables; the platform is the guild's threads *)
(* and the staff role; every interaction handler is a task that runs its   *)
(* synchronous segments atomically and may be suspended at each platform   *)
(* call (await).  A platform call whose outcome the handler writes to the  *)
(* store is split in two steps, the platform performing the request and    *)
(* the handler resuming with the outcome, so that other steps fall in      *)
(* between.                                                                *)
(*                                                                         *)
(* Spec      handles one interaction at a time, all handlers, while the    *)
(*           staff role and the clock change between the steps.            *)
(* SpecRace  has two handlers in flight on one ticket.                     *)
(* SpecProv  runs TicketSelect.callback for every staff-role member list   *)
(*           and every STAFF_ADD_LIMIT within the bounds.                  *)
(* SpecStore executes the program's statements on the tickets table with   *)
(*           parameters drawn from small sets.                             *)
(***************************************************************************)
EXTENDS Integers, Sequences, FiniteSets, TLC

\* ---------------------------------------------------------------- bounds
MaxThreads == 1      \* thread ids the platform hands out in one run
MaxClock == 2        \* now_ts() ranges over 1..MaxClock
MaxOps == 4          \* interactions delivered in one run of Spec
MaxProvOps == 2      \* interactions delivered in one run of SpecProv
MaxRaceOps == 5      \* interactions delivered in one run of SpecRace
MaxLimit == 2        \* STAFF_ADD_LIMIT ranges over 0..MaxLimit in SpecProv
MaxKeys == 2         \* thread ids the statements of SpecStore are run with
MaxStore == 4        \* statements executed in one run of SpecStore
MaxShortName == 3    \* usernames over every character class are 1..MaxShortName long
MaxLongName == 9     \* usernames of letters and digits are MaxLongName long
MaxMessages == 5     \* messages in the thread whose transcript is generated
PageSize == 2        \* messages the platform returns per history request
MaxTranscriptOps == 3  \* interactions delivered in one run of SpecTranscript
MaxPayload == 4      \* characters typed into the channel modal
MaxModalOps == 1     \* modal submissions in one run of SpecModal
MaxRuns == 2         \* process starts in one run of SpecRestart
MaxRestartOps == 3   \* interactions handled in one run of SpecRestart
MaxPanelOps == 3     \* interactions handled in one run of SpecPanel
MaxFrameOps == 3     \* interactions handled in one run of SpecFrame

\* STAFF_ADD_LIMIT = int(os.getenv('STAFF_ADD_LIMIT', '20'))
STAFF_ADD_LIMIT == 20

Users == {"ann", "bob", "cat"}
\* members whose guild_permissions.administrator is set
Administrators == {"ann"}
\* the handlers that can be in flight at once
Tasks == {1, 2}
\* the values of the three SelectOptions of TicketSelect
Choices == {"purchase", "staff", "other"}
ThreadIds == 1..MaxThreads
\* the text channel the ticket menu is posted in (not a thread)
ParentChannel == MaxThreads + 1
Channels == ThreadIds \cup {ParentChannel}
\* a channel of the guild that is not a text channel, and an id the guild
\* has no channel for
VoiceChannel == MaxThreads + 2
UnknownChannel == MaxThreads + 3
\* isinstance(ch, discord.TextChannel) for the channel with this id
IsTextChannel(id) == id = ParentChannel

\* an optional value (None / a value) is the empty or the one-element sequence
None == << >>
Some(v) == << v >>

VARIABLES
    tickets,      \* the tickets table: a set of rows
    config,       \* the config table: key -> optional value
    thr,          \* the platform's threads: id -> [state, archived, locked]
    roleMembers,  \* role.members of the staff role, in platform order
    limit,        \* STAFF_ADD_LIMIT
    now,          \* the last reading of the clock
    task,         \* the handlers in flight
    views,        \* the AdminPanelView / ConfirmDeleteView messages shown
    ops,          \* interactions delivered (statements executed) so far
    proc,         \* the process: its view store and the interaction in dispatch
    env,          \* TRANSCRIPT_CHANNEL_ID of the environment: optional channel id
    eval          \* a helper function under evaluation: [f, arg, res]

vars == << tickets, config, thr, roleMembers, limit, now, task, views, ops,
           proc, env, eval >>

\* what the handlers of one process run neither read nor write
ext == << proc, env, eval >>

\* ------------------------------------------------------------ the store
Row(id, thread_id, channel_id, user_id, choice, created_at) ==
    [ id |-> id, thread_id |-> thread_id, channel_id |-> channel_id,
      user_id |-> user_id, choice |-> choice, created_at |-> created_at,
      closed_at |-> None, status |-> "open", claimed_by |-> None ]

\* AUTOINCREMENT: one more than the largest id ever used (rows are never deleted)
NextRowId(tbl) ==
    IF tbl = {} THEN 1 ELSE 1 + CHOOSE m \in {r.id : r \in tbl} : \A r \in tbl : r.id <= m

\* INSERT OR REPLACE: the statement a conflict would replace the row with
InsertOrReplace(tbl, thread_id, channel_id, user_id, choice, ts) ==
    { r \in tbl : r.thread_id # thread_id }
        \cup { Row(NextRowId(tbl), thread_id, channel_id, user_id, choice, ts) }

\* INSERT OR IGNORE INTO tickets ...: thread_id is UNIQUE, a conflict is ignored
InsertOrIgnore(tbl, thread_id, channel_id, user_id, choice, ts) ==
    IF \E r \in tbl : r.thread_id = thread_id
    THEN tbl
    ELSE tbl \cup { Row(NextRowId(tbl), thread_id, channel_id, user_id, choice, ts) }

\* the UPDATE of the status alone, closed_at left as it is
UpdateStatusOnly(tbl, status, ts, thread_id) ==
    { IF r.thread_id = thread_id THEN [r EXCEPT !.status = status] ELSE r : r \in tbl }

\* UPDATE tickets SET status = ?, closed_at = ? WHERE thread_id = ?
UpdateStatus(tbl, status, ts, thread_id) ==
    { IF r.thread_id = thread_id
      THEN [r EXCEPT !.status = status, !.closed_at = Some(ts)]
      ELSE r : r \in tbl }

\* the UPDATE of claimed_by with no WHERE clause
UpdateClaimedByAll(tbl, user_id, thread_id) ==
    { [r EXCEPT !.claimed_by = Some(user_id)] : r \in tbl }

\* UPDATE tickets SET claimed_by = ? WHERE thread_id = ?
UpdateClaimedBy(tbl, user_id, thread_id) ==
    { IF r.thread_id = thread_id
      THEN [r EXCEPT !.claimed_by = Some(user_id)]
      ELSE r : r \in tbl }

\* SELECT * FROM tickets WHERE thread_id = ? ; fetchone(): a row or None
SelectByThread(tbl, thread_id) ==
    IF \E r \in tbl : r.thread_id = thread_id
    THEN Some(CHOOSE r \in tbl : r.thread_id = thread_id)
    ELSE None

\* get_config(key): the value, or None without a row
get_config(cfg, key) == cfg[key]

\* set_config(key, value): INSERT OR REPLACE
set_config(cfg, key, value) == [cfg EXCEPT ![key] = Some(value)]

\* module start: TRANSCRIPT_CHANNEL_ID, when set, is written to config
startup_config(cfg, e) ==
    IF e # None THEN set_config(cfg, "transcript_channel_id", e[1]) ELSE cfg

\* -------------------------------------------------------- authorization
InRole(u) == \E k \in 1..Len(roleMembers) : roleMembers[k] = u

\* is_staff with the role branch left out
is_staff_admin_only(u) == u \in Administrators

\* is_staff with no check at all
is_staff_anyone(u) == TRUE

\* is_staff: administrator, or holder of the staff role.  An unset
\* STAFF_ROLE_ID or a role the guild no longer has behaves as a role
\* nobody holds (roleMembers = << >>).
is_staff(u) == u \in Administrators \/ InRole(u)

\* the guard of handle_close with the creator left out
CanCloseStaffOnly(u, row) == is_staff(u)

\* the guard of handle_close: staff, or the ticket's creator
CanClose(u, row) ==
    is_staff(u) \/ (row # None /\ row[1].user_id = u)

\* ---------------------------------------------------------------- tasks
\* before, calls and staff are history: the tables and the views before the
\* task's last segment, the platform calls it has requested, and whether
\* its actor held staff rights when the interaction was delivered; acks
\* counts the answers sent, deferred tells whether response.defer() was
\* called, transcript where the transcript of the thread went
Idle ==
    [ op |-> "idle", pc |-> "idle", actor |-> "nobody", ch |-> ParentChannel,
      choice |-> "none", thread |-> None, row |-> None, members |-> << >>,
      i |-> 0, fallback |-> FALSE, attempts |-> << >>, failed |-> 0,
      new_locked |-> FALSE, arg |-> "nobody", ok |-> FALSE, ack |-> "",
      staff |-> FALSE, calls |-> {},
      before |-> [tickets |-> {}, views |-> {},
                  config |-> [k \in {"transcript_channel_id"} |-> None]],
      acks |-> 0, deferred |-> FALSE, transcript |-> "none" ]

\* administrator, or holder of the staff role, in the current state
HoldsStaff(u) == u \in Administrators \/ u \in {roleMembers[k] : k \in 1..Len(roleMembers)}

Snapshot == [tickets |-> tickets, views |-> views, config |-> config]

\* bool(interaction.response.is_done): the handlers test the attribute
\* without calling it, and a bound method is truthy
response_is_done == TRUE

\* the handlers that never mention defer: ConfirmDeleteView.confirm and
\* .cancel, the plain buttons, ChannelModal.on_submit
NoDeferHandlers == { "confirm", "cancel", "plain", "modal" }

\* `if not interaction.response.is_done: await interaction.response.defer()`
Deferred(op) == op \notin NoDeferHandlers /\ ~response_is_done

Fresh(op, u, c) ==
    [Idle EXCEPT !.op = op, !.actor = u, !.ch = c, !.staff = HoldsStaff(u),
                 !.before = Snapshot, !.deferred = Deferred(op)]

IsThread(c) == c \in ThreadIds
\* a channel an interaction can arrive from: the text channel, or a thread
\* that exists on the platform
Live(c) == c = ParentChannel \/ (IsThread(c) /\ thr[c].state = "live")

\* the handler suspends at a platform call
Await(rec, pc, call) ==
    [rec EXCEPT !.pc = pc, !.calls = @ \cup {call}, !.before = Snapshot]

\* the answer a handler ends with (followup.send / response.send_message)
Answer(rec, title) ==
    [rec EXCEPT !.pc = "done", !.ack = title, !.acks = @ + 1, !.before = Snapshot]

\* an interaction is delivered to the first free handler slot; an answer is
\* handed over before anything else happens
NoneDone == \A t \in Tasks : task[t].pc # "done"
Deliver(t, budget) ==
    /\ NoneDone
    /\ ops < budget
    /\ task[t].pc = "idle"
    /\ \A s \in Tasks : s < t => task[s].pc # "idle"
    /\ ops' = ops + 1

\* the wall clock never runs backward: now_ts() reads `now` or later
Readings == now..MaxClock

NoThread == [state |-> "none", archived |-> FALSE, locked |-> FALSE]

\* on_ready without the bot.add_view of the thread controls
on_ready_views_menu_and_panel ==
    { "ticket_select_v2",
      "admin_delete_thread_v1", "admin_send_transcript_v1", "admin_post_default_v1",
      "admin_set_default_v1" }

\* the custom_ids of the views on_ready hands to bot.add_view: TicketSelectView,
\* the four thread controls, and AdminPanelView
on_ready_views ==
    { "ticket_select_v2",
      "ticket_close_v2", "ticket_claim_v2", "ticket_transcript_v2", "ticket_lock_v2",
      "admin_delete_thread_v1", "admin_send_transcript_v1", "admin_post_default_v1",
      "admin_set_default_v1" }

\* the process before on_ready: an empty view store.  runs counts the
\* process starts, prior is the set of threads that had a row when the
\* process started, dropped the custom_ids of the interactions the view
\* store had no item for (all three history)
Started(runs, prior) ==
    [ up |-> FALSE, registry |-> {}, inbox |-> None, dropped |-> {},
      runs |-> runs, prior |-> prior ]

\* the process after on_ready
Ready(p) == [p EXCEPT !.up = TRUE, !.registry = on_ready_views]

NoEval == [f |-> "none", arg |-> << >>, res |-> None]

Init ==
    /\ tickets = {}
    /\ config = [k \in {"transcript_channel_id"} |-> None]
    /\ thr = [c \in ThreadIds |-> NoThread]
    /\ roleMembers = << "bob" >>
    /\ limit = STAFF_ADD_LIMIT
    /\ now = 1
    /\ task = [t \in Tasks |-> Idle]
    /\ views = {}
    /\ ops = 0
    /\ proc = Ready(Started(1, {}))
    /\ env = None
    /\ eval = NoEval

\* ---------------------------------------------------------- environment
\* a guild admin gives a member the staff role
GrantRole(u) ==
    /\ NoneDone
    /\ ~InRole(u)
    /\ roleMembers' = Append(roleMembers, u)
    /\ UNCHANGED << ext, tickets, config, thr, limit, now, task, views, ops >>

\* a guild admin takes the staff role from a member
RevokeRole(u) ==
    /\ NoneDone
    /\ InRole(u)
    /\ roleMembers' = SelectSeq(roleMembers, LAMBDA m : m # u)
    /\ UNCHANGED << ext, tickets, config, thr, limit, now, task, views, ops >>

\* a member of the guild opens a thread by hand: a thread with no ticket
CreateForeignThread ==
    /\ NoneDone
    /\ \E c \in ThreadIds :
        /\ thr[c].state = "none"
        /\ \A d \in ThreadIds : d < c => thr[d].state # "none"
        /\ thr' = [thr EXCEPT ![c].state = "live"]
    /\ UNCHANGED << ext, tickets, config, roleMembers, limit, now, task, views, ops >>

\* a handler that has answered returns
Return(t) ==
    /\ task[t].pc = "done"
    /\ task' = [task EXCEPT ![t] = Idle]
    /\ UNCHANGED << ext, tickets, config, thr, roleMembers, limit, now, views, ops >>

\* ---------------------------------------------------------- handle_close
\* CloseButton / cmd_ticket_close up to the first platform call.  The defer
\* is skipped (interaction.response.is_done is a bound method, so
\* `not interaction.response.is_done` is False); then the context check, the
\* row lookup, the permission check and the request to archive the thread.
handle_close(t, u, c, budget) ==
    /\ Deliver(t, budget)
    /\ Live(c)
    /\ LET row == IF IsThread(c) THEN SelectByThread(tickets, c) ELSE None
           me == [Fresh("close", u, c) EXCEPT !.row = row]
       IN  task' = [task EXCEPT ![t] =
                IF ~IsThread(c) THEN Answer(me, "Invalid context")
                ELSE IF ~CanClose(u, row) THEN Answer(me, "Permission denied")
                ELSE Await(me, "edit", "archive")]
    /\ UNCHANGED << ext, tickets, config, thr, roleMembers, limit, now, views >>

\* the platform performs channel.edit(archived=True): it fails for a thread
\* that is gone, and may fail for any other reason
channel_edit_archived(t) ==
    /\ NoneDone
    /\ task[t].op = "close" /\ task[t].pc = "edit"
    /\ \E ok \in BOOLEAN :
        /\ ok => thr[task[t].ch].state = "live"
        /\ thr' = IF ok THEN [thr EXCEPT ![task[t].ch].archived = TRUE] ELSE thr
        /\ task' = [task EXCEPT ![t].pc = "edited", ![t].ok = ok]
    /\ UNCHANGED << ext, tickets, config, roleMembers, limit, now, views, ops >>

\* the UPDATE placed before the try, so that it runs whatever the edit did
CloseWritesAlways(ok) == TRUE

\* the UPDATE of handle_close is inside the try, after the awaited edit
CloseWrites(ok) == ok

\* handle_close resumes after the edit: the UPDATE, or the error answer
handle_close_resume(t) ==
    /\ NoneDone
    /\ task[t].op = "close" /\ task[t].pc = "edited"
    /\ \E ts \in Readings :
        IF CloseWrites(task[t].ok)
        THEN tickets' = UpdateStatus(tickets, "closed", ts, task[t].ch) /\ now' = ts
        ELSE tickets' = tickets /\ now' = now
    /\ task' = [task EXCEPT ![t] =
                IF task[t].ok THEN [@ EXCEPT !.pc = "export", !.before = Snapshot]
                ELSE Answer(@, "Error")]
    /\ UNCHANGED << ext, config, thr, roleMembers, limit, views, ops >>

\* the transcript post to the default channel, when one is configured (a
\* channel that is not a text channel is skipped, a failure is ignored), the
\* thread notice, then the answer
handle_close_finish(t) ==
    /\ NoneDone
    /\ task[t].op = "close" /\ task[t].pc = "export"
    /\ \E posted \in BOOLEAN :
        LET default == get_config(config, "transcript_channel_id")
        IN  /\ posted => default # None /\ IsTextChannel(default[1])
            /\ task' = [task EXCEPT ![t] =
                    Answer([@ EXCEPT !.transcript = IF posted THEN "posted" ELSE "none"],
                           "Closed")]
    /\ UNCHANGED << ext, tickets, config, thr, roleMembers, limit, now, views, ops >>

\* ---------------------------------------------------------- handle_claim
\* the guard of the UPDATE with the staff check left out
CanClaimAnyone(u, row) == row # None

\* the guard of the UPDATE in handle_claim: a row exists and the actor is staff
CanClaim(u, row) == row # None /\ is_staff(u)

\* ClaimButton / cmd_ticket_claim: lookup, staff check and UPDATE run in one
\* synchronous segment; the thread notice and the answer follow
handle_claim(t, u, c, budget) ==
    /\ Deliver(t, budget)
    /\ Live(c)
    /\ LET row == IF IsThread(c) THEN SelectByThread(tickets, c) ELSE None
           me == [Fresh("claim", u, c) EXCEPT !.row = row]
       IN  /\ task' = [task EXCEPT ![t] =
                IF ~IsThread(c) THEN Answer(me, "Invalid context")
                ELSE IF row = None THEN Answer(me, "Not a ticket")
                ELSE IF ~CanClaim(u, row) THEN Answer(me, "Permission denied")
                ELSE Await(me, "notify", "send")]
           /\ tickets' = IF IsThread(c) /\ CanClaim(u, row)
                         THEN UpdateClaimedBy(tickets, u, c)
                         ELSE tickets
    /\ UNCHANGED << ext, config, thr, roleMembers, limit, now, views >>

handle_claim_finish(t) ==
    /\ NoneDone
    /\ task[t].op = "claim" /\ task[t].pc = "notify"
    /\ task' = [task EXCEPT ![t] = Answer(@, "Ticket claimed")]
    /\ UNCHANGED << ext, tickets, config, thr, roleMembers, limit, now, views, ops >>

\* ---------------------------------------------------- handle_lock_toggle
\* LockButton / cmd_ticket_lock up to the platform call
handle_lock_toggle(t, u, c, budget) ==
    /\ Deliver(t, budget)
    /\ Live(c)
    /\ LET me == Fresh("lock", u, c)
       IN  task' = [task EXCEPT ![t] =
                IF ~IsThread(c) THEN Answer(me, "Invalid context")
                ELSE IF ~is_staff(u) THEN Answer(me, "Permission denied")
                ELSE Await([me EXCEPT !.new_locked = ~thr[c].locked], "edit", "lock")]
    /\ UNCHANGED << ext, tickets, config, thr, roleMembers, limit, now, views >>

\* channel.edit(locked=new_locked), the announcement in the thread and the
\* answer: a failure of the edit or of the announcement answers 'Error'
handle_lock_toggle_finish(t) ==
    /\ NoneDone
    /\ task[t].op = "lock" /\ task[t].pc = "edit"
    /\ \E ok \in BOOLEAN, announced \in BOOLEAN :
        /\ ok => thr[task[t].ch].state = "live"
        /\ thr' = IF ok THEN [thr EXCEPT ![task[t].ch].locked = task[t].new_locked] ELSE thr
        /\ task' = [task EXCEPT ![t] =
                Answer([@ EXCEPT !.ok = ok], IF ok /\ announced THEN "Done" ELSE "Error")]
    /\ UNCHANGED << ext, tickets, config, roleMembers, limit, now, views, ops >>

\* ------------------------------------- cmd_ticket_add / cmd_ticket_remove
cmd_ticket_add(t, u, c, m, budget) ==
    /\ Deliver(t, budget)
    /\ Live(c)
    /\ LET me == [Fresh("add", u, c) EXCEPT !.arg = m]
       IN  task' = [task EXCEPT ![t] =
                IF ~IsThread(c) THEN Answer(me, "Invalid context")
                ELSE IF ~is_staff(u) THEN Answer(me, "Permission denied")
                ELSE Await(me, "member", "add_user")]
    /\ UNCHANGED << ext, tickets, config, thr, roleMembers, limit, now, views >>

\* channel.add_user(member) and the answer
cmd_ticket_add_finish(t) ==
    /\ NoneDone
    /\ task[t].op = "add" /\ task[t].pc = "member"
    /\ \E ok \in BOOLEAN :
        /\ ok => thr[task[t].ch].state = "live"
        /\ task' = [task EXCEPT ![t] =
                Answer([@ EXCEPT !.ok = ok], IF ok THEN "Added" ELSE "Error")]
    /\ UNCHANGED << ext, tickets, config, thr, roleMembers, limit, now, views, ops >>

cmd_ticket_remove(t, u, c, m, budget) ==
    /\ Deliver(t, budget)
    /\ Live(c)
    /\ LET me == [Fresh("remove", u, c) EXCEPT !.arg = m]
       IN  task' = [task EXCEPT ![t] =
                IF ~IsThread(c) THEN Answer(me, "Invalid context")
                ELSE IF ~is_staff(u) THEN Answer(me, "Permission denied")
                ELSE Await(me, "member", "remove_user")]
    /\ UNCHANGED << ext, tickets, config, thr, roleMembers, limit, now, views >>

\* channel.remove_user(member) and the answer
cmd_ticket_remove_finish(t) ==
    /\ NoneDone
    /\ task[t].op = "remove" /\ task[t].pc = "member"
    /\ \E ok \in BOOLEAN :
        /\ ok => thr[task[t].ch].state = "live"
        /\ task' = [task EXCEPT ![t] =
                Answer([@ EXCEPT !.ok = ok], IF ok THEN "Removed" ELSE "Error")]
    /\ UNCHANGED << ext, tickets, config, thr, roleMembers, limit, now, views, ops >>

\* ------------------------------------------------------- cmd_admin_panel
View(kind, owner, thread) == [kind |-> kind, owner |-> owner, thread |-> thread]

\* the ephemeral AdminPanelView message is shown to the actor
cmd_admin_panel(t, u, c, budget) ==
    /\ Deliver(t, budget)
    /\ Live(c)
    /\ LET me == Fresh("panel", u, c)
       IN  /\ task' = [task EXCEPT ![t] =
                IF ~IsThread(c) THEN Answer(me, "Invalid context")
                ELSE IF ~is_staff(u) THEN Answer(me, "Permission denied")
                ELSE Answer(me, "Admin Panel")]
           /\ views' = IF IsThread(c) /\ is_staff(u)
                       THEN views \cup {View("panel", u, c)}
                       ELSE views
    /\ UNCHANGED << ext, tickets, config, thr, roleMembers, limit, now >>

\* ----------------------------------------------------- admin_delete_flow
\* AdminButton_Delete pressed on a panel the actor was shown: the ephemeral
\* ConfirmDeleteView for the thread is shown to the actor
admin_delete_flow(t, u, c, budget) ==
    /\ Deliver(t, budget)
    /\ IsThread(c) /\ Live(c)
    /\ View("panel", u, c) \in views
    /\ LET me == Fresh("delete_flow", u, c)
       IN  /\ task' = [task EXCEPT ![t] =
                IF ~is_staff(u) THEN Answer(me, "Permission denied")
                ELSE Answer(me, "Confirm delete")]
           /\ views' = IF is_staff(u) THEN views \cup {View("confirm", u, c)} ELSE views
    /\ UNCHANGED << ext, tickets, config, thr, roleMembers, limit, now >>

\* ----------------------------------------------------- ConfirmDeleteView
\* confirm trusting the check made when the flow was opened
ConfirmAllowedTrusted(u) == TRUE

\* the staff check of ConfirmDeleteView.confirm, made when confirm is pressed
ConfirmAllowed(u) == is_staff(u)

\* 'Confirm delete' pressed: the staff check and the request to delete
ConfirmDeleteView_confirm(t, u, c, budget) ==
    /\ Deliver(t, budget)
    /\ IsThread(c) /\ Live(c)
    /\ View("confirm", u, c) \in views
    /\ LET me == Fresh("confirm", u, c)
       IN  task' = [task EXCEPT ![t] =
                IF ~ConfirmAllowed(u) THEN Answer(me, "Permission denied")
                ELSE Await(me, "delete", "delete")]
    /\ UNCHANGED << ext, tickets, config, thr, roleMembers, limit, now, views >>

\* the platform performs thread.delete(): it fails for a thread that is
\* gone, and may fail for any other reason
thread_delete(t) ==
    /\ NoneDone
    /\ task[t].op = "confirm" /\ task[t].pc = "delete"
    /\ \E ok \in BOOLEAN :
        /\ ok => thr[task[t].ch].state = "live"
        /\ thr' = IF ok THEN [thr EXCEPT ![task[t].ch].state = "deleted"] ELSE thr
        /\ task' = [task EXCEPT ![t].pc = "deleting", ![t].ok = ok]
    /\ UNCHANGED << ext, tickets, config, roleMembers, limit, now, views, ops >>

\* the UPDATE placed before the try, so that it runs whatever the delete did
ConfirmWritesAlways(ok) == TRUE

\* the UPDATE of confirm is inside the try, after the awaited delete
ConfirmWrites(ok) == ok

\* confirm resumes after the delete: the UPDATE and the answer
ConfirmDeleteView_confirm_resume(t) ==
    /\ NoneDone
    /\ task[t].op = "confirm" /\ task[t].pc = "deleting"
    /\ \E ts \in Readings :
        IF ConfirmWrites(task[t].ok)
        THEN tickets' = UpdateStatus(tickets, "deleted", ts, task[t].ch) /\ now' = ts
        ELSE tickets' = tickets /\ now' = now
    /\ task' = [task EXCEPT ![t] = Answer(@, IF task[t].ok THEN "Deleted" ELSE "Error")]
    /\ UNCHANGED << ext, config, thr, roleMembers, limit, views, ops >>

\* 'Cancel' pressed
ConfirmDeleteView_cancel(t, u, c, budget) ==
    /\ Deliver(t, budget)
    /\ IsThread(c) /\ Live(c)
    /\ View("confirm", u, c) \in views
    /\ task' = [task EXCEPT ![t] = Answer(Fresh("cancel", u, c), "Cancelled")]
    /\ UNCHANGED << ext, tickets, config, thr, roleMembers, limit, now, views >>

\* timeout=60: the confirmation view goes inert
ConfirmDeleteView_timeout(v) ==
    /\ NoneDone
    /\ v \in views /\ v.kind = "confirm"
    /\ views' = views \ {v}
    /\ UNCHANGED << ext, tickets, config, thr, roleMembers, limit, now, task, ops >>

\* ------------------------------------------------------ handle_transcript
\* the guard of handle_transcript: staff, or the ticket's creator
CanRequestTranscript(u, row) == is_staff(u) \/ row[1].user_id = u

\* TranscriptButton / cmd_ticket_transcript up to generate_transcript
handle_transcript(t, u, c, budget) ==
    /\ Deliver(t, budget)
    /\ Live(c)
    /\ LET row == IF IsThread(c) THEN SelectByThread(tickets, c) ELSE None
           me == [Fresh("transcript", u, c) EXCEPT !.row = row]
       IN  task' = [task EXCEPT ![t] =
                IF ~IsThread(c) THEN Answer(me, "Invalid context")
                ELSE IF row = None THEN Answer(me, "Not a ticket")
                ELSE IF ~CanRequestTranscript(u, row) THEN Answer(me, "Permission denied")
                ELSE Await(me, "generate", "history")]
    /\ UNCHANGED << ext, tickets, config, thr, roleMembers, limit, now, views >>

\* the transcript is generated, posted to the default channel when one is
\* configured and is a text channel, sent to the actor by DM when it was
\* not posted, and the outcome answered
handle_transcript_finish(t) ==
    /\ NoneDone
    /\ task[t].op = "transcript" /\ task[t].pc = "generate"
    /\ \E generated \in BOOLEAN, posted \in BOOLEAN, dm \in BOOLEAN :
        LET default == get_config(config, "transcript_channel_id")
        IN  /\ generated => thr[task[t].ch].state = "live"
            /\ posted => generated /\ default # None /\ IsTextChannel(default[1])
            /\ dm => generated /\ ~posted
            /\ task' = [task EXCEPT ![t] =
                    IF ~generated THEN Answer([@ EXCEPT !.transcript = "failed"], "Error")
                    ELSE IF posted THEN Answer([@ EXCEPT !.transcript = "posted"], "Posted")
                    ELSE IF dm THEN Answer([@ EXCEPT !.transcript = "dm"], "Sent")
                    ELSE Answer([@ EXCEPT !.transcript = "failed"], "Failed")]
    /\ UNCHANGED << ext, tickets, config, thr, roleMembers, limit, now, views, ops >>

\* -------------------------------------------------- TicketSelect.callback
Min(a, b) == IF a < b THEN a ELSE b

\* the slice taken one member short
to_add_short(members, L) == SubSeq(members, 1, Min(Len(members), L) - 1)

\* members[:STAFF_ADD_LIMIT]
to_add(members, L) == SubSeq(members, 1, Min(Len(members), L))

\* the fallback decided with >= in place of >
fallback_role_mention_ge(members, L) == Len(members) # 0 /\ Len(members) >= L

\* fallback_role_mention after the loop:
\* `if members:` ... `if len(members) > STAFF_ADD_LIMIT`
fallback_role_mention(members, L) == Len(members) # 0 /\ Len(members) > L

\* a selection in the ticket menu, up to the request to create the thread;
\* perm is perms.create_private_threads of the bot in the channel
TicketSelect_callback(t, u, choice, perm, budget) ==
    /\ Deliver(t, budget)
    /\ LET me == [Fresh("select", u, ParentChannel) EXCEPT !.choice = choice]
       IN  task' = [task EXCEPT ![t] =
                IF ~perm THEN Answer(me, "Permission error")
                ELSE Await(me, "create", "create_thread")]
    /\ UNCHANGED << ext, tickets, config, thr, roleMembers, limit, now, views >>

\* the platform performs channel.create_thread: a new private thread, or a
\* rejection, which the handler answers with 'Error creating thread'
channel_create_thread(t) ==
    /\ NoneDone
    /\ task[t].op = "select" /\ task[t].pc = "create"
    /\ \/ \E c \in ThreadIds :
            /\ thr[c].state = "none"
            /\ \A d \in ThreadIds : d < c => thr[d].state # "none"
            /\ thr' = [thr EXCEPT ![c].state = "live"]
            /\ task' = [task EXCEPT ![t] =
                    Await([@ EXCEPT !.thread = Some(c)], "add_creator", "add_creator")]
       \/ /\ thr' = thr
          /\ task' = [task EXCEPT ![t] = Answer(@, "Error creating thread")]
    /\ UNCHANGED << ext, tickets, config, roleMembers, limit, now, views, ops >>

\* the INSERT skipped when an add failed
PersistIfAllAdded(rec, ts) ==
    IF rec.ok /\ rec.failed = 0
    THEN InsertOrIgnore(tickets, rec.thread[1], rec.ch, rec.actor, rec.choice, ts)
    ELSE tickets

\* the INSERT of the ticket row, reached when the staff loop is over
Persist(rec, ts) ==
    InsertOrIgnore(tickets, rec.thread[1], rec.ch, rec.actor, rec.choice, ts)

AfterLoop(rec) ==
    [rec EXCEPT !.pc = "welcome", !.before = Snapshot,
                !.fallback = fallback_role_mention(rec.members, limit)]

\* thread.add_user(user) for the creator (a failure is ignored), then the
\* snapshot of role.members and the first add of the staff loop, or, with
\* nobody to add, the INSERT
thread_add_creator(t) ==
    /\ NoneDone
    /\ task[t].op = "select" /\ task[t].pc = "add_creator"
    /\ \E ok \in BOOLEAN, ts \in Readings :
        /\ ok => thr[task[t].thread[1]].state = "live"
        /\ LET rec == [task[t] EXCEPT !.ok = ok, !.members = roleMembers]
           IN  IF Len(to_add(rec.members, limit)) > 0
               THEN /\ task' = [task EXCEPT ![t] = [rec EXCEPT !.pc = "add_staff", !.i = 1]]
                    /\ tickets' = tickets /\ now' = now
               ELSE /\ task' = [task EXCEPT ![t] = AfterLoop(rec)]
                    /\ tickets' = Persist(rec, ts) /\ now' = ts
    /\ UNCHANGED << ext, config, thr, roleMembers, limit, views, ops >>

\* thread.add_user(m) for to_add[i] (a failure is skipped with `continue`),
\* then the next member, or, after the last one, the INSERT
thread_add_staff(t) ==
    /\ NoneDone
    /\ task[t].op = "select" /\ task[t].pc = "add_staff"
    /\ \E ok \in BOOLEAN, ts \in Readings :
        /\ ok => thr[task[t].thread[1]].state = "live"
        /\ LET todo == to_add(task[t].members, limit)
               rec == [task[t] EXCEPT !.attempts = Append(@, todo[task[t].i]),
                                       !.failed = IF ok THEN @ ELSE @ + 1]
           IN  IF task[t].i < Len(todo)
               THEN /\ task' = [task EXCEPT ![t] = [rec EXCEPT !.i = @ + 1]]
                    /\ tickets' = tickets /\ now' = now
               ELSE /\ task' = [task EXCEPT ![t] = AfterLoop(rec)]
                    /\ tickets' = Persist(rec, ts) /\ now' = ts
    /\ UNCHANGED << ext, config, thr, roleMembers, limit, views, ops >>

\* the welcome message with the TicketThreadView (a failure is ignored) and
\* the answer
TicketSelect_callback_finish(t) ==
    /\ NoneDone
    /\ task[t].op = "select" /\ task[t].pc = "welcome"
    /\ task' = [task EXCEPT ![t] = Answer(@, "Ticket Created")]
    /\ UNCHANGED << ext, tickets, config, thr, roleMembers, limit, now, views, ops >>

\* ------------------------------------------------------- specifications
\* the member whose staff role is given and taken during a run of Spec: with
\* "ann" an administrator and "cat" never staff, an actor is staff
\* throughout, never, or on and off
Toggled == {"bob"}
\* one interaction at a time
Serial == {1}

Next ==
    \/ \E u \in Toggled : GrantRole(u)
    \/ \E u \in Toggled : RevokeRole(u)
    \/ CreateForeignThread
    \/ \E t \in Serial : Return(t)
    \/ \E t \in Serial, u \in Users, choice \in Choices, perm \in BOOLEAN :
            TicketSelect_callback(t, u, choice, perm, MaxOps)
    \/ \E t \in Serial : channel_create_thread(t)
    \/ \E t \in Serial : thread_add_creator(t)
    \/ \E t \in Serial : thread_add_staff(t)
    \/ \E t \in Serial : TicketSelect_callback_finish(t)
    \/ \E t \in Serial, u \in Users, c \in Channels : handle_close(t, u, c, MaxOps)
    \/ \E t \in Serial : channel_edit_archived(t)
    \/ \E t \in Serial : handle_close_resume(t)
    \/ \E t \in Serial : handle_close_finish(t)
    \/ \E t \in Serial, u \in Users, c \in Channels : handle_claim(t, u, c, MaxOps)
    \/ \E t \in Serial : handle_claim_finish(t)
    \/ \E t \in Serial, u \in Users, c \in Channels : handle_lock_toggle(t, u, c, MaxOps)
    \/ \E t \in Serial : handle_lock_toggle_finish(t)
    \/ \E t \in Serial, u \in Users, c \in Channels, m \in Users :
            cmd_ticket_add(t, u, c, m, MaxOps)
    \/ \E t \in Serial : cmd_ticket_add_finish(t)
    \/ \E t \in Serial, u \in Users, c \in Channels, m \in Users :
            cmd_ticket_remove(t, u, c, m, MaxOps)
    \/ \E t \in Serial : cmd_ticket_remove_finish(t)
    \/ \E t \in Serial, u \in Users, c \in Channels : cmd_admin_panel(t, u, c, MaxOps)
    \/ \E t \in Serial, u \in Users, c \in ThreadIds : admin_delete_flow(t, u, c, MaxOps)
    \/ \E t \in Serial, u \in Users, c \in ThreadIds :
            ConfirmDeleteView_confirm(t, u, c, MaxOps)
    \/ \E t \in Serial : thread_delete(t)
    \/ \E t \in Serial : ConfirmDeleteView_confirm_resume(t)
    \/ \E t \in Serial, u \in Users, c \in ThreadIds :
            ConfirmDeleteView_cancel(t, u, c, MaxOps)
    \/ \E v \in views : ConfirmDeleteView_timeout(v)

Spec == Init /\ [][Next]_vars

\* two handlers in flight on the ticket of one administrator
RaceUsers == {"ann"}

NextRace ==
    \/ \E t \in Tasks : Return(t)
    \/ \E t \in Tasks, u \in RaceUsers :
            TicketSelect_callback(t, u, "other", TRUE, MaxRaceOps)
    \/ \E t \in Tasks : channel_create_thread(t)
    \/ \E t \in Tasks : thread_add_creator(t)
    \/ \E t \in Tasks : thread_add_staff(t)
    \/ \E t \in Tasks : TicketSelect_callback_finish(t)
    \/ \E t \in Tasks, u \in RaceUsers, c \in ThreadIds : handle_close(t, u, c, MaxRaceOps)
    \/ \E t \in Tasks : channel_edit_archived(t)
    \/ \E t \in Tasks : handle_close_resume(t)
    \/ \E t \in Tasks : handle_close_finish(t)
    \/ \E t \in Tasks, u \in RaceUsers, c \in ThreadIds : handle_claim(t, u, c, MaxRaceOps)
    \/ \E t \in Tasks : handle_claim_finish(t)
    \/ \E t \in Tasks, u \in RaceUsers, c \in ThreadIds : cmd_admin_panel(t, u, c, MaxRaceOps)
    \/ \E t \in Tasks, u \in RaceUsers, c \in ThreadIds :
            admin_delete_flow(t, u, c, MaxRaceOps)
    \/ \E t \in Tasks, u \in RaceUsers, c \in ThreadIds :
            ConfirmDeleteView_confirm(t, u, c, MaxRaceOps)
    \/ \E t \in Tasks : thread_delete(t)
    \/ \E t \in Tasks : ConfirmDeleteView_confirm_resume(t)

SpecRace == Init /\ [][NextRace]_vars

\* every list of distinct members the staff role can hold
RoleLists ==
    { s \in UNION { [1..n -> Users] : n \in 0..Cardinality(Users) } :
        \A a, b \in DOMAIN s : a # b => s[a] # s[b] }

InitProv ==
    /\ tickets = {}
    /\ config = [k \in {"transcript_channel_id"} |-> None]
    /\ thr = [c \in ThreadIds |-> NoThread]
    /\ roleMembers \in RoleLists
    /\ limit \in 0..MaxLimit
    /\ now = 1
    /\ task = [t \in Tasks |-> Idle]
    /\ views = {}
    /\ ops = 0
    /\ proc = Ready(Started(1, {}))
    /\ env = None
    /\ eval = NoEval

\* the staff role is left alone while the selections are handled
NextProv ==
    \/ \E t \in Serial : Return(t)
    \/ \E t \in Serial, u \in Users, choice \in Choices, perm \in BOOLEAN :
            TicketSelect_callback(t, u, choice, perm, MaxProvOps)
    \/ \E t \in Serial : channel_create_thread(t)
    \/ \E t \in Serial : thread_add_creator(t)
    \/ \E t \in Serial : thread_add_staff(t)
    \/ \E t \in Serial : TicketSelect_callback_finish(t)

SpecProv == InitProv /\ [][NextProv]_vars

\* the statements of the program on the tickets table
StoreKeys == 1..MaxKeys

\* the statement last executed, its thread id, and the table before it
Statement(op, k) ==
    [task EXCEPT ![1] = [Idle EXCEPT !.op = op, !.thread = Some(k), !.before = Snapshot]]

store_insert(k, u, choice, ts) ==
    /\ ops < MaxStore
    /\ ops' = ops + 1
    /\ tickets' = InsertOrIgnore(tickets, k, ParentChannel, u, choice, ts)
    /\ now' = ts
    /\ task' = Statement("insert", k)
    /\ UNCHANGED << ext, config, thr, roleMembers, limit, views >>

store_update_status(k, status, ts) ==
    /\ ops < MaxStore
    /\ ops' = ops + 1
    /\ tickets' = UpdateStatus(tickets, status, ts, k)
    /\ now' = ts
    /\ task' = Statement("update_status", k)
    /\ UNCHANGED << ext, config, thr, roleMembers, limit, views >>

store_update_claimed_by(k, u) ==
    /\ ops < MaxStore
    /\ ops' = ops + 1
    /\ tickets' = UpdateClaimedBy(tickets, u, k)
    /\ task' = Statement("update_claimed_by", k)
    /\ UNCHANGED << ext, config, thr, roleMembers, limit, now, views >>

NextStore ==
    \/ \E k \in StoreKeys, u \in Users, choice \in Choices, ts \in Readings :
            store_insert(k, u, choice, ts)
    \/ \E k \in StoreKeys, status \in {"closed", "deleted"}, ts \in Readings :
            store_update_status(k, status, ts)
    \/ \E k \in StoreKeys, u \in Users : store_update_claimed_by(k, u)

SpecStore == Init /\ [][NextStore]_vars

\* the values TRANSCRIPT_CHANNEL_ID can have: unset, a text channel, a
\* channel that is not a text channel, an id of no channel
EnvChannels == {None, Some(ParentChannel), Some(VoiceChannel), Some(UnknownChannel)}

InitTranscript ==
    /\ tickets = {}
    /\ env \in EnvChannels
    /\ config = startup_config([k \in {"transcript_channel_id"} |-> None], env)
    /\ thr = [c \in ThreadIds |-> NoThread]
    /\ roleMembers = << "bob" >>
    /\ limit = STAFF_ADD_LIMIT
    /\ now = 1
    /\ task = [t \in Tasks |-> Idle]
    /\ views = {}
    /\ ops = 0
    /\ proc = Ready(Started(1, {}))
    /\ eval = NoEval

NextTranscript ==
    \/ \E t \in Serial : Return(t)
    \/ \E t \in Serial, u \in Users, choice \in Choices :
            TicketSelect_callback(t, u, choice, TRUE, MaxTranscriptOps)
    \/ \E t \in Serial : channel_create_thread(t)
    \/ \E t \in Serial : thread_add_creator(t)
    \/ \E t \in Serial : thread_add_staff(t)
    \/ \E t \in Serial : TicketSelect_callback_finish(t)
    \/ \E t \in Serial, u \in Users, c \in Channels :
            handle_close(t, u, c, MaxTranscriptOps)
    \/ \E t \in Serial : channel_edit_archived(t)
    \/ \E t \in Serial : handle_close_resume(t)
    \/ \E t \in Serial : handle_close_finish(t)
    \/ \E t \in Serial, u \in Users, c \in Channels :
            handle_transcript(t, u, c, MaxTranscriptOps)
    \/ \E t \in Serial : handle_transcript_finish(t)

SpecTranscript == InitTranscript /\ [][NextTranscript]_vars

\* ------------------------------------------------------- thread_safe_name
\* Strings are sequences of characters.  The characters used: the ASCII
\* small letters and digits, "J" for an ASCII capital, "o_uml" for a small
\* letter outside ASCII (U+00F6), "O_uml" for its capital, and punctuation.
AsciiLower ==
    { "a", "b", "c", "d", "e", "f", "g", "h", "i", "j", "k", "l", "m",
      "n", "o", "p", "q", "r", "s", "t", "u", "v", "w", "x", "y", "z" }
AsciiDigits == { "0", "1", "2", "3", "4", "5", "6", "7", "8", "9" }

\* str.lower() on one character
lower(ch) == CASE ch = "J" -> "j" [] ch = "O_uml" -> "o_uml" [] OTHER -> ch

\* str.isalnum(): true of every Unicode letter and digit
isalnum(ch) == ch \in AsciiLower \cup AsciiDigits \cup {"J", "o_uml", "O_uml"}

Lowered(str) == [k \in 1..Len(str) |-> lower(str[k])]
\* str[:n]
Prefix(str, n) == SubSeq(str, 1, Min(Len(str), n))

\* the decimal digits of n, most significant first
RECURSIVE Decimal(_)
Decimal(n) ==
    IF n < 10 THEN << CHOOSE d \in AsciiDigits : d = ToString(n) >>
    ELSE Append(Decimal(n \div 10), CHOOSE d \in AsciiDigits : d = ToString(n % 10))

\* int.from_bytes(os.urandom(2), 'big'): every value of two bytes
RandomValues == 0..65535

\* rnd % 9000 + 1000
suffix(rnd) == (rnd % 9000) + 1000

\* thread_safe_name(choice, username); rnd is int.from_bytes(os.urandom(2), 'big')
thread_safe_name(choice, username, rnd) ==
    LET base0 == Lowered(IF choice = << >> THEN << "t", "i", "c", "k", "e", "t" >> ELSE choice)
        base == Prefix(SelectSeq(base0, LAMBDA ch : isalnum(ch) \/ ch \in {"-", "_"}), 12)
        user0 == Prefix(SelectSeq(Lowered(username), isalnum), 8)
        user == IF user0 = << >> THEN << "u" >> ELSE user0
        rand == suffix(rnd)
    IN  base \o << "-" >> \o user \o << "-" >> \o Decimal(rand)

\* self.values[0] of TicketSelect as a string
ChoiceString(choice) ==
    CASE choice = "purchase" -> << "p", "u", "r", "c", "h", "a", "s", "e" >>
      [] choice = "staff" -> << "s", "t", "a", "f", "f" >>
      [] OTHER -> << "o", "t", "h", "e", "r" >>

\* usernames: short ones over every class of character, long ones of
\* letters and digits
NameChars == { "a", "J", "1", "o_uml", "_", "!" }
Usernames ==
    UNION { [1..n -> NameChars] : n \in 1..MaxShortName }
        \cup [1..MaxLongName -> {"a", "1"}]
\* two random bytes
Rands == { 0, 8999, 9000, 65535 }

\* the program state a helper function is evaluated in
Quiet ==
    /\ tickets = {}
    /\ config = [k \in {"transcript_channel_id"} |-> None]
    /\ thr = [c \in ThreadIds |-> NoThread]
    /\ roleMembers = << "bob" >>
    /\ limit = STAFF_ADD_LIMIT
    /\ now = 1
    /\ task = [t \in Tasks |-> Idle]
    /\ views = {}
    /\ ops = 0
    /\ proc = Ready(Started(1, {}))
    /\ env = None

InitName ==
    /\ Quiet
    /\ \E choice \in Choices, username \in Usernames, rnd \in Rands :
        eval = [f |-> "thread_safe_name",
                arg |-> << ChoiceString(choice), username, rnd >>, res |-> None]

thread_safe_name_call ==
    /\ eval.f = "thread_safe_name" /\ eval.res = None
    /\ eval' = [eval EXCEPT !.res =
                    Some(thread_safe_name(eval.arg[1], eval.arg[2], eval.arg[3]))]
    /\ UNCHANGED << tickets, config, thr, roleMembers, limit, now, task, views, ops,
                    proc, env >>

NextName == thread_safe_name_call

SpecName == InitName /\ [][NextName]_vars

\* ------------------------------------------------- ChannelModal.on_submit
\* str.strip(): blanks dropped at both ends
RECURSIVE lstrip(_, _)
lstrip(str, ch) ==
    IF str # << >> /\ str[1] = ch THEN lstrip(Tail(str), ch) ELSE str
RECURSIVE rstrip(_, _)
rstrip(str, ch) ==
    IF str # << >> /\ str[Len(str)] = ch THEN rstrip(SubSeq(str, 1, Len(str) - 1), ch)
    ELSE str
strip(str) == rstrip(lstrip(str, " "), " ")

IsDigits(str) == str # << >> /\ \A k \in DOMAIN str : str[k] \in AsciiDigits
RECURSIVE DigitsValue(_)
DigitsValue(str) ==
    IF str = << >> THEN 0
    ELSE 10 * DigitsValue(SubSeq(str, 1, Len(str) - 1))
         + (CHOOSE n \in 0..9 : ToString(n) = str[Len(str)])

\* int(str): blanks around, an optional sign, digits; None for ValueError
int(str) ==
    LET lit == strip(str)
        signed == lit # << >> /\ lit[1] \in {"+", "-"}
        digits == IF signed THEN Tail(lit) ELSE lit
    IN  IF ~IsDigits(digits) THEN None
        ELSE IF signed /\ lit[1] = "-" THEN Some(0 - DigitsValue(digits))
        ELSE Some(DigitsValue(digits))

\* the names of the guild's channels
ChannelName(id) == IF id = ParentChannel THEN << "g" >> ELSE << "v" >>

\* discord.utils.get(guild.text_channels, name=...)
text_channel_named(name) ==
    IF name = ChannelName(ParentChannel) THEN Some(ParentChannel) ELSE None

\* the channel id on_submit reads from the text typed: <#id>, an id, or the
\* name of a text channel with any leading '#' dropped
channel_id_of(value) ==
    LET raw == strip(value)
        mention == Len(raw) >= 3 /\ raw[1] = "<" /\ raw[2] = "#" /\ raw[Len(raw)] = ">"
        cid == IF mention THEN int(SubSeq(raw, 3, Len(raw) - 1)) ELSE int(raw)
    IN  IF cid # None THEN cid ELSE text_channel_named(lstrip(raw, "#"))

\* guild.get_channel(cid) or await guild.fetch_channel(cid): a channel of
\* the guild, a thread, or None when the fetch raises
resolve_channel(cid) ==
    IF cid \in {ParentChannel, VoiceChannel} \/ (cid \in ThreadIds /\ thr[cid].state = "live")
    THEN Some(cid) ELSE None

\* on_submit taking whatever channel the id resolves to
ModalChannelAny(id) == TRUE

\* isinstance(ch, discord.TextChannel) in on_submit
ModalChannelOk(id) == IsTextChannel(id)

PayloadChars ==
    { "<", "#", ">", " ", "+", "-", "g", "v" }
        \cup { ToString(id) : id \in {ParentChannel, VoiceChannel, UnknownChannel} }
Payloads == UNION { [1..n -> PayloadChars] : n \in 1..MaxPayload }
ModalActions == { "set_default", "send" }

\* a ChannelModal built with (thread, action) is submitted with the text
\* `value`: parsing, the channel checks, then set_config or the request for
\* the transcript
ChannelModal_on_submit(t, u, thread, action, value, budget) ==
    /\ Deliver(t, budget)
    /\ Live(thread)
    /\ action = "send" => IsThread(thread)
    /\ LET me == [Fresh("modal", u, thread) EXCEPT !.choice = action, !.arg = value]
           cid == channel_id_of(value)
           ch == IF cid = None THEN None ELSE resolve_channel(cid[1])
       IN  IF cid = None
           THEN /\ task' = [task EXCEPT ![t] = Answer(me, "Invalid channel")]
                /\ config' = config
           ELSE IF ch = None
           THEN /\ task' = [task EXCEPT ![t] = Answer(me, "Error")]
                /\ config' = config
           ELSE IF ~ModalChannelOk(ch[1])
           THEN /\ task' = [task EXCEPT ![t] = Answer(me, "Invalid channel")]
                /\ config' = config
           ELSE IF action = "set_default"
           THEN /\ task' = [task EXCEPT ![t] =
                        Answer([me EXCEPT !.thread = ch], "Configured")]
                /\ config' = set_config(config, "transcript_channel_id", ch[1])
           ELSE /\ task' = [task EXCEPT ![t] =
                        Await([me EXCEPT !.thread = ch], "generate", "history")]
                /\ config' = config
    /\ UNCHANGED << ext, tickets, thr, roleMembers, limit, now, views >>

\* 'send': the transcript is generated and posted to the channel, and the
\* outcome answered
ChannelModal_on_submit_finish(t) ==
    /\ NoneDone
    /\ task[t].op = "modal" /\ task[t].pc = "generate"
    /\ \E sent \in BOOLEAN :
        /\ sent => thr[task[t].ch].state = "live"
        /\ task' = [task EXCEPT ![t] =
                IF sent THEN Answer([@ EXCEPT !.transcript = "posted"], "Sent")
                ELSE Answer(@, "Error")]
    /\ UNCHANGED << ext, tickets, config, thr, roleMembers, limit, now, views, ops >>

\* submissions of both modals with every text within the bound; the thread
\* is one opened by hand
NextModal ==
    \/ CreateForeignThread
    \/ \E t \in Serial : Return(t)
    \/ /\ ops < MaxModalOps
       /\ \E t \in Serial, u \in RaceUsers, c \in ThreadIds, action \in ModalActions,
                value \in Payloads :
                ChannelModal_on_submit(t, u, c, action, value, MaxModalOps)
    \/ \E t \in Serial : ChannelModal_on_submit_finish(t)

SpecModal == Init /\ [][NextModal]_vars

\* ---------------------------------------------------- generate_transcript
\* A message is its snowflake id; created_at is read off the id, so ids
\* that are close share a timestamp.
MessageIds == 1..MaxMessages
created_at(m) == (m + 1) \div 2

\* the threads the platform may hold: the messages in any storage order
Histories ==
    { h \in UNION { [1..n -> MessageIds] : n \in 0..MaxMessages } :
        \A a, b \in DOMAIN h : a # b => h[a] # h[b] }

Range(h) == { h[k] : k \in DOMAIN h }

\* one request of the history endpoint: the PageSize oldest messages after
\* the cursor, oldest first
RECURSIVE Page(_, _, _)
Page(msgs, after, n) ==
    LET rest == { m \in msgs : m > after }
    IN  IF n = 0 \/ rest = {} THEN << >>
        ELSE LET m == CHOOSE x \in rest : \A y \in rest : x <= y
             IN  << m >> \o Page(msgs, m, n - 1)

\* the same requests walked from the newest message down
RECURSIVE history_newest_first(_)
history_newest_first(stored) ==
    IF stored = << >> THEN << >>
    ELSE LET m == CHOOSE x \in Range(stored) : \A y \in Range(stored) : x >= y
         IN  << m >> \o history_newest_first(SelectSeq(stored, LAMBDA x : x # m))

\* thread.history(limit=None, oldest_first=True): request after request
\* until a page comes back empty
RECURSIVE HistoryFrom(_, _)
HistoryFrom(msgs, after) ==
    LET page == Page(msgs, after, PageSize)
    IN  IF page = << >> THEN << >>
        ELSE page \o HistoryFrom(msgs, page[Len(page)])

history(stored) == HistoryFrom(Range(stored), 0)

\* generate_transcript: the header, then one entry per message in the
\* order the history yields them
generate_transcript(stored) ==
    LET yielded == history(stored)
    IN  << [kind |-> "header", id |-> 0, t |-> 0] >>
        \o [k \in 1..Len(yielded) |->
                [kind |-> "message", id |-> yielded[k], t |-> created_at(yielded[k])]]

InitHistory ==
    /\ Quiet
    /\ \E stored \in Histories :
        eval = [f |-> "generate_transcript", arg |-> stored, res |-> None]

generate_transcript_call ==
    /\ eval.f = "generate_transcript" /\ eval.res = None
    /\ eval' = [eval EXCEPT !.res = Some(generate_transcript(eval.arg))]
    /\ UNCHANGED << tickets, config, thr, roleMembers, limit, now, task, views, ops,
                    proc, env >>

NextHistory == generate_transcript_call

SpecHistory == InitHistory /\ [][NextHistory]_vars

\* ------------------------------------------------- restarts and dispatch
\* the custom_ids of CloseButton, ClaimButton, TranscriptButton, LockButton
ThreadControls ==
    { "ticket_close_v2", "ticket_claim_v2", "ticket_transcript_v2", "ticket_lock_v2" }

\* the items of a ConfirmDeleteView: the two decorated buttons, and the two
\* plain ui.Button objects __init__ adds (custom_id f'..._{thread.id}')
ConfirmDecorated == { "confirm_delete_button", "cancel_delete_button" }
ConfirmPlain(c) ==
    { "confirm_delete_" \o ToString(c), "cancel_delete_" \o ToString(c) }

Interaction(custom_id, u, c, value) ==
    [ custom_id |-> custom_id, user |-> u, channel |-> c, value |-> value ]

\* the view store of the running process: what on_ready registered, and
\* the items of a ConfirmDeleteView made in this process and not timed out
ViewStore(u, c) ==
    proc.registry \cup
        (IF View("confirm", u, c) \in views THEN ConfirmDecorated \cup ConfirmPlain(c) ELSE {})

\* the component is on a message the user has in front of them
Shown(custom_id, u, c) ==
    CASE custom_id = "ticket_select_v2" -> c = ParentChannel
      [] custom_id \in ThreadControls -> IsThread(c) /\ SelectByThread(tickets, c) # None
      [] custom_id = "admin_delete_thread_v1" -> View("panel", u, c) \in views
      [] custom_id \in ConfirmDecorated \cup ConfirmPlain(c) ->
            View("confirm", u, c) \in views \/ View("stale", u, c) \in views
      [] OTHER -> FALSE

RestartUsers == { "ann", "cat" }
RestartEnv == { None, Some(VoiceChannel) }
Pressable ==
    { "ticket_select_v2", "admin_delete_thread_v1" } \cup ThreadControls
        \cup ConfirmDecorated \cup UNION { ConfirmPlain(c) : c \in ThreadIds }

InitRestart ==
    /\ tickets = {}
    /\ env \in RestartEnv
    /\ config = startup_config([k \in {"transcript_channel_id"} |-> None], env)
    /\ thr = [c \in ThreadIds |-> NoThread]
    /\ roleMembers = << "bob" >>
    /\ limit = STAFF_ADD_LIMIT
    /\ now = 1
    /\ task = [t \in Tasks |-> Idle]
    /\ views = {}
    /\ ops = 0
    /\ proc = Ready(Started(1, {}))
    /\ eval = NoEval

\* the process ends (at any point of a handler) and is started again: the
\* module body runs, with its INSERT OR REPLACE of the environment's
\* channel; database and platform keep their state, the handlers in flight
\* and the views made by the old process are gone, their messages stay
Restart ==
    /\ proc.runs < MaxRuns
    /\ proc' = Started(proc.runs + 1, { r.thread_id : r \in tickets })
    /\ config' = startup_config(config, env)
    /\ task' = [t \in Tasks |-> Idle]
    /\ views' = { IF v.kind = "confirm" THEN View("stale", v.owner, v.thread) ELSE v :
                    v \in views }
    /\ UNCHANGED << env, eval, tickets, thr, roleMembers, limit, now, ops >>

on_ready ==
    /\ ~proc.up
    /\ proc' = Ready(proc)
    /\ UNCHANGED << env, eval, tickets, config, thr, roleMembers, limit, now, task,
                    views, ops >>

\* a component is pressed and the interaction reaches the process
Press(custom_id, u, c, value) ==
    /\ proc.up /\ proc.inbox = None
    /\ \A t \in Tasks : task[t].pc = "idle"
    /\ Live(c) /\ Shown(custom_id, u, c)
    /\ custom_id \in ViewStore(u, c) => ops < MaxRestartOps
    /\ proc' = [proc EXCEPT !.inbox = Some(Interaction(custom_id, u, c, value))]
    /\ UNCHANGED << env, eval, tickets, config, thr, roleMembers, limit, now, task,
                    views, ops >>

\* one of the plain buttons of ConfirmDeleteView: ui.Button.callback is the
\* inherited Item.callback, which does nothing
ConfirmDeleteView_plain_button(t, u, c, budget) ==
    /\ Deliver(t, budget)
    /\ IsThread(c) /\ Live(c)
    /\ View("confirm", u, c) \in views
    /\ task' = [task EXCEPT ![t] = [Fresh("plain", u, c) EXCEPT !.pc = "done"]]
    /\ UNCHANGED << ext, tickets, config, thr, roleMembers, limit, now, views >>

\* the view store finds the item by custom_id and runs its callback
Dispatch(t) ==
    /\ proc.up /\ proc.inbox # None
    /\ LET i == proc.inbox[1]
       IN  /\ i.custom_id \in ViewStore(i.user, i.channel)
           /\ \/ /\ i.custom_id = "ticket_select_v2"
                 /\ \E perm \in BOOLEAN :
                        TicketSelect_callback(t, i.user, i.value, perm, MaxRestartOps)
              \/ /\ i.custom_id = "ticket_close_v2"
                 /\ handle_close(t, i.user, i.channel, MaxRestartOps)
              \/ /\ i.custom_id = "ticket_claim_v2"
                 /\ handle_claim(t, i.user, i.channel, MaxRestartOps)
              \/ /\ i.custom_id = "ticket_transcript_v2"
                 /\ handle_transcript(t, i.user, i.channel, MaxRestartOps)
              \/ /\ i.custom_id = "ticket_lock_v2"
                 /\ handle_lock_toggle(t, i.user, i.channel, MaxRestartOps)
              \/ /\ i.custom_id = "admin_delete_thread_v1"
                 /\ admin_delete_flow(t, i.user, i.channel, MaxRestartOps)
              \/ /\ i.custom_id = "confirm_delete_button"
                 /\ ConfirmDeleteView_confirm(t, i.user, i.channel, MaxRestartOps)
              \/ /\ i.custom_id = "cancel_delete_button"
                 /\ ConfirmDeleteView_cancel(t, i.user, i.channel, MaxRestartOps)
              \/ /\ i.custom_id \in ConfirmPlain(i.channel)
                 /\ ConfirmDeleteView_plain_button(t, i.user, i.channel, MaxRestartOps)

\* no item of the view store has the custom_id: the interaction is ignored
Drop ==
    /\ proc.up /\ proc.inbox # None
    /\ LET i == proc.inbox[1]
       IN  /\ i.custom_id \notin ViewStore(i.user, i.channel)
           /\ proc' = [proc EXCEPT !.inbox = None, !.dropped = @ \cup {i.custom_id}]
    /\ UNCHANGED << env, eval, tickets, config, thr, roleMembers, limit, now, task,
                    views, ops >>

\* the callback has returned: the interaction is over
Settle(t) ==
    /\ task[t].pc = "done"
    /\ task' = [task EXCEPT ![t] = Idle]
    /\ proc' = [proc EXCEPT !.inbox = None]
    /\ UNCHANGED << env, eval, tickets, config, thr, roleMembers, limit, now, views, ops >>

NextRestart ==
    \/ CreateForeignThread
    \/ Restart
    \/ on_ready
    \/ /\ proc.up /\ proc.inbox = None
       /\ \E custom_id \in Pressable, u \in RestartUsers, c \in Channels :
            Press(custom_id, u, c,
                  IF custom_id = "ticket_select_v2" THEN "other" ELSE "none")
    \/ \E t \in Serial : Dispatch(t)
    \/ Drop
    \/ \E t \in Serial : Settle(t)
    \/ /\ proc.up /\ proc.inbox = None
       /\ \E t \in Serial, u \in RestartUsers, c \in ThreadIds :
            cmd_admin_panel(t, u, c, MaxRestartOps)
    \/ /\ proc.up /\ proc.inbox = None /\ ops < MaxRestartOps
       /\ \E t \in Serial, u \in RestartUsers :
            ChannelModal_on_submit(t, u, ParentChannel, "set_default", << "g" >>,
                                   MaxRestartOps)
    \/ \E t \in Serial : channel_create_thread(t)
    \/ \E t \in Serial : thread_add_creator(t)
    \/ \E t \in Serial : thread_add_staff(t)
    \/ \E t \in Serial : TicketSelect_callback_finish(t)
    \/ \E t \in Serial : channel_edit_archived(t)
    \/ \E t \in Serial : handle_close_resume(t)
    \/ \E t \in Serial : handle_close_finish(t)
    \/ \E t \in Serial : handle_claim_finish(t)
    \/ \E t \in Serial : handle_transcript_finish(t)
    \/ \E t \in Serial : handle_lock_toggle_finish(t)
    \/ \E t \in Serial : thread_delete(t)
    \/ \E t \in Serial : ConfirmDeleteView_confirm_resume(t)
    \/ \E v \in views : ConfirmDeleteView_timeout(v)

SpecRestart == InitRestart /\ [][NextRestart]_vars


\* ------------------------------------------- the admin panel's buttons
\* bool(await interaction.followup.send(...)): the WebhookMessage that was
\* sent, which is truthy
followup_send_result == TRUE

\* `return await followup.send(...) or await response.send_modal(modal)`:
\* the right operand is evaluated only for a falsy left operand
send_modal_reached == ~followup_send_result

\* AdminButton_SetDefaultTranscript.callback: the modal is built, 'Modal
\* opened' is answered; the modal is shown to the actor if send_modal runs
AdminButton_SetDefaultTranscript_callback(t, u, c, budget) ==
    /\ Deliver(t, budget)
    /\ Live(c)
    /\ View("panel", u, c) \in views
    /\ task' = [task EXCEPT ![t] =
            Answer([Fresh("set_default_button", u, c) EXCEPT !.choice = "set_default"],
                   "Modal opened")]
    /\ views' = IF send_modal_reached
                THEN views \cup {View("modal_set_default", u, c)} ELSE views
    /\ UNCHANGED << ext, tickets, config, thr, roleMembers, limit, now >>

\* AdminButton_SendTranscript.callback: the same, for a thread
AdminButton_SendTranscript_callback(t, u, c, budget) ==
    /\ Deliver(t, budget)
    /\ Live(c)
    /\ View("panel", u, c) \in views
    /\ LET me == [Fresh("send_button", u, c) EXCEPT !.choice = "send"]
       IN  task' = [task EXCEPT ![t] =
                IF ~IsThread(c) THEN Answer(me, "Invalid context")
                ELSE Answer(me, "Modal opened")]
    /\ views' = IF IsThread(c) /\ send_modal_reached
                THEN views \cup {View("modal_send", u, c)} ELSE views
    /\ UNCHANGED << ext, tickets, config, thr, roleMembers, limit, now >>

\* AdminButton_PostToDefault.callback up to generate_transcript: the thread
\* check and the lookup of the default channel
AdminButton_PostToDefault_callback(t, u, c, budget) ==
    /\ Deliver(t, budget)
    /\ Live(c)
    /\ View("panel", u, c) \in views
    /\ LET me == Fresh("post_default", u, c)
           default == get_config(config, "transcript_channel_id")
       IN  task' = [task EXCEPT ![t] =
                IF ~IsThread(c) THEN Answer(me, "Invalid context")
                ELSE IF default = None THEN Answer(me, "Not configured")
                ELSE IF resolve_channel(default[1]) = None
                        \/ ~IsTextChannel(default[1]) THEN Answer(me, "Error")
                ELSE Await(me, "generate", "history")]
    /\ UNCHANGED << ext, tickets, config, thr, roleMembers, limit, now, views >>

\* the transcript is generated and sent to the default channel; any failure
\* is answered 'Error'
AdminButton_PostToDefault_finish(t) ==
    /\ NoneDone
    /\ task[t].op = "post_default" /\ task[t].pc = "generate"
    /\ \E sent \in BOOLEAN :
        /\ sent => thr[task[t].ch].state = "live"
        /\ task' = [task EXCEPT ![t] =
                IF sent THEN Answer([@ EXCEPT !.transcript = "posted"], "Posted")
                ELSE Answer(@, "Error")]
    /\ UNCHANGED << ext, tickets, config, thr, roleMembers, limit, now, views, ops >>



\* the panel opened by each kind of actor, the staff role given and taken,
\* and the three transcript buttons
NextPanel ==
    \/ \E u \in Toggled : GrantRole(u)
    \/ \E u \in Toggled : RevokeRole(u)
    \/ CreateForeignThread
    \/ \E t \in Serial : Return(t)
    \/ \E t \in Serial, u \in Users, c \in Channels : cmd_admin_panel(t, u, c, MaxPanelOps)
    \/ \E t \in Serial, u \in Users, c \in Channels :
            AdminButton_SetDefaultTranscript_callback(t, u, c, MaxPanelOps)
    \/ \E t \in Serial, u \in Users, c \in Channels :
            AdminButton_SendTranscript_callback(t, u, c, MaxPanelOps)
    \/ \E t \in Serial, u \in Users, c \in Channels :
            AdminButton_PostToDefault_callback(t, u, c, MaxPanelOps)
    \/ \E t \in Serial : AdminButton_PostToDefault_finish(t)

SpecPanel == InitTranscript /\ [][NextPanel]_vars

\* the custom_ids of the components on the messages the program has sent:
\* the menu, the controls in each ticket thread, and the items of the
\* panels and confirmation views shown
Rendered ==
    { "ticket_select_v2" }
        \cup (IF tickets # {} THEN ThreadControls ELSE {})
        \cup UNION { CASE v.kind = "panel" ->
                            { "admin_delete_thread_v1", "admin_send_transcript_v1",
                              "admin_post_default_v1", "admin_set_default_v1" }
                       [] v.kind \in {"confirm", "stale"} ->
                            ConfirmDecorated \cup ConfirmPlain(v.thread)
                       [] OTHER -> {} : v \in views }

\* the custom_ids of the items whose class defines a callback
WithCallback == on_ready_views \cup ConfirmDecorated

\* ------------------------------------------------ the suffix of the name
\* how many of the two-byte values give the suffix s
SuffixCount(s) == Cardinality({ rnd \in RandomValues : suffix(rnd) = s })

\* the suffixes looked at: the two ends of the range, and both sides of
\* the point where the two-byte values run out (65536 = 7 * 9000 + 2536)
Suffixes == (1000..1039) \cup (3516..3555) \cup (9960..9999)

InitSuffix ==
    /\ Quiet
    /\ \E s \in Suffixes : eval = [f |-> "suffix", arg |-> << s >>, res |-> None]

suffix_count ==
    /\ eval.f = "suffix" /\ eval.res = None
    /\ eval' = [eval EXCEPT !.res = Some(SuffixCount(eval.arg[1]))]
    /\ UNCHANGED << tickets, config, thr, roleMembers, limit, now, task, views, ops,
                    proc, env >>

NextSuffix == suffix_count

SpecSuffix == InitSuffix /\ [][NextSuffix]_vars

\* ------------------------------------------------ a second ticket's row
\* the thread of an earlier ticket, since removed on the platform by hand:
\* its row stays in the table, and no interaction can come from it
OldThread == 0

\* the table holds the earlier ticket when the run starts
InitFrame ==
    /\ tickets = { Row(1, OldThread, ParentChannel, "cat", "other", 1) }
    /\ config = [k \in {"transcript_channel_id"} |-> None]
    /\ thr = [c \in ThreadIds |-> NoThread]
    /\ roleMembers = << "bob" >>
    /\ limit = STAFF_ADD_LIMIT
    /\ now = 1
    /\ task = [t \in Tasks |-> Idle]
    /\ views = {}
    /\ ops = 0
    /\ proc = Ready(Started(1, {OldThread}))
    /\ env = None
    /\ eval = NoEval

\* every handler that reads or writes the tickets table, and those the
\* frame says leave it alone
NextFrame ==
    \/ \E u \in Toggled : RevokeRole(u)
    \/ CreateForeignThread
    \/ \E t \in Serial : Return(t)
    \/ \E t \in Serial, u \in Users, choice \in Choices :
            TicketSelect_callback(t, u, choice, TRUE, MaxFrameOps)
    \/ \E t \in Serial : channel_create_thread(t)
    \/ \E t \in Serial : thread_add_creator(t)
    \/ \E t \in Serial : thread_add_staff(t)
    \/ \E t \in Serial : TicketSelect_callback_finish(t)
    \/ \E t \in Serial, u \in Users, c \in ThreadIds : handle_close(t, u, c, MaxFrameOps)
    \/ \E t \in Serial : channel_edit_archived(t)
    \/ \E t \in Serial : handle_close_resume(t)
    \/ \E t \in Serial : handle_close_finish(t)
    \/ \E t \in Serial, u \in Users, c \in ThreadIds : handle_claim(t, u, c, MaxFrameOps)
    \/ \E t \in Serial : handle_claim_finish(t)
    \/ \E t \in Serial, u \in Users, c \in ThreadIds :
            handle_lock_toggle(t, u, c, MaxFrameOps)
    \/ \E t \in Serial : handle_lock_toggle_finish(t)
    \/ \E t \in Serial, u \in Users, c \in ThreadIds, m \in Users :
            cmd_ticket_add(t, u, c, m, MaxFrameOps)
    \/ \E t \in Serial : cmd_ticket_add_finish(t)
    \/ \E t \in Serial, u \in Users, c \in ThreadIds, m \in Users :
            cmd_ticket_remove(t, u, c, m, MaxFrameOps)
    \/ \E t \in Serial : cmd_ticket_remove_finish(t)
    \/ \E t \in Serial, u \in Users, c \in ThreadIds :
            handle_transcript(t, u, c, MaxFrameOps)
    \/ \E t \in Serial : handle_transcript_finish(t)
    \/ \E t \in Serial, u \in Users, c \in ThreadIds : cmd_admin_panel(t, u, c, MaxFrameOps)
    \/ \E t \in Serial, u \in Users, c \in ThreadIds :
            admin_delete_flow(t, u, c, MaxFrameOps)
    \/ \E t \in Serial, u \in Users, c \in ThreadIds :
            ConfirmDeleteView_confirm(t, u, c, MaxFrameOps)
    \/ \E t \in Serial : thread_delete(t)
    \/ \E t \in Serial : ConfirmDeleteView_confirm_resume(t)

SpecFrame == InitFrame /\ [][NextFrame]_vars

\* ---------------------------------------------------------------- claims
RowOf(c) == { r \in tickets : r.thread_id = c }
Rank(status) == CASE status = "open" -> 0 [] status = "closed" -> 1 [] OTHER -> 2

\* C1: for every ticket and every interleaving of the handlers, the stored
\* status only moves open -> closed -> deleted or open -> deleted, never
\* backward.
C1_StatusOnlyMovesForward ==
    [][ \A r \in tickets : \A q \in tickets' :
            q.thread_id = r.thread_id => Rank(q.status) >= Rank(r.status) ]_vars

Rejections == {"Permission denied", "Not a ticket", "Invalid context"}

\* C2: a close attempt on a ticket whose status is already 'closed' is
\* rejected: no archive request, the table as it was, and a rejection as
\* the answer.
C2_SecondCloseRejected ==
    \A t \in Tasks :
        (task[t].op = "close" /\ task[t].row # None /\ task[t].row[1].status = "closed")
        => /\ task[t].pc = "done"
           /\ task[t].ack \in Rejections
           /\ "archive" \notin task[t].calls
           /\ tickets = task[t].before.tickets

\* C3: handle_close requests the archive if and only if the actor is staff
\* or the ticket's creator; every other actor is answered 'Permission
\* denied', with no archive request and the table as it was.
C3_CloseAllowedIffStaffOrCreator ==
    \A t \in Tasks :
        (task[t].op = "close" /\ IsThread(task[t].ch))
        => LET may == task[t].staff
                        \/ (task[t].row # None /\ task[t].row[1].user_id = task[t].actor)
           IN  /\ may <=> "archive" \in task[t].calls
               /\ ~may => /\ task[t].pc = "done"
                          /\ task[t].ack = "Permission denied"
                          /\ tickets = task[t].before.tickets

\* the creator of a ticket, not staff, has the archive of it requested
C3_Witness ==
    \E t \in Tasks :
        /\ task[t].op = "close" /\ ~task[t].staff
        /\ task[t].row # None /\ task[t].row[1].user_id = task[t].actor
        /\ task[t].pc = "edit"

\* C4: handle_claim sets claimed_by to the actor only when the thread has a
\* ticket row and the actor is staff; otherwise it answers not-a-ticket or
\* permission-denied and the table is as it was.
C4_ClaimOnlyByStaffOnTicket ==
    \A t \in Tasks :
        task[t].op = "claim"
        => LET may == IsThread(task[t].ch) /\ task[t].row # None /\ task[t].staff
           IN  /\ ~may => /\ task[t].pc = "done"
                          /\ task[t].ack \in Rejections
                          /\ tickets = task[t].before.tickets
               /\ (may /\ task[t].pc = "notify")
                  => tickets = { IF r.thread_id = task[t].ch
                                 THEN [r EXCEPT !.claimed_by = Some(task[t].actor)]
                                 ELSE r : r \in task[t].before.tickets }
               /\ may => task[t].pc = "notify"
                         \/ (task[t].pc = "done" /\ task[t].ack = "Ticket claimed")

\* the creator of a ticket, not staff, is denied the claim
C4_Witness ==
    \E t \in Tasks :
        /\ task[t].op = "claim" /\ ~task[t].staff
        /\ task[t].row # None /\ task[t].row[1].user_id = task[t].actor
        /\ task[t].ack = "Permission denied"

StaffOnlyOps == {"lock", "add", "remove", "delete_flow", "panel"}

\* C5: lock/unlock, ticket_add, ticket_remove, opening the delete flow and
\* opening the admin panel, called in a thread by an actor who is not staff
\* (the ticket's creator included), answer 'Permission denied' and produce
\* no platform request, no view and no change of the table.
C5_StaffOnlyOperations ==
    \A t \in Tasks :
        (task[t].op \in StaffOnlyOps /\ ~task[t].staff /\ IsThread(task[t].ch))
        => /\ task[t].pc = "done"
           /\ task[t].ack = "Permission denied"
           /\ task[t].calls = {}
           /\ views = task[t].before.views
           /\ tickets = task[t].before.tickets

\* the creator of a ticket, whose staff role was taken after the admin panel
\* was shown, is denied the delete flow
C5_Witness ==
    \E t \in Tasks :
        /\ task[t].op = "delete_flow" /\ ~task[t].staff
        /\ \E r \in RowOf(task[t].ch) : r.user_id = task[t].actor
        /\ task[t].ack = "Permission denied"

\* C6: a row's status is 'closed' only if an archive of its thread succeeded
\* and 'deleted' only if the delete of its thread succeeded; when the
\* archive or the delete fails the table is as it was.
C6_StoreFollowsPlatform ==
    /\ \A r \in tickets :
        /\ r.status = "closed" => thr[r.thread_id].archived
        /\ r.status = "deleted" => thr[r.thread_id].state = "deleted"
    /\ \A t \in Tasks :
        (task[t].op \in {"close", "confirm"} /\ task[t].pc = "done" /\ task[t].ack = "Error")
        => tickets = task[t].before.tickets

\* the archive of an open ticket's thread failed and the ticket is still open
C6_Witness ==
    \E t \in Tasks :
        /\ task[t].op = "close" /\ task[t].pc = "done" /\ task[t].ack = "Error"
        /\ \E r \in RowOf(task[t].ch) : r.status = "open" /\ r.closed_at = None

\* C7: the table holds at most one row per thread_id, and an INSERT for a
\* thread_id that has a row leaves every row as it was.
C7_CreateIdempotent ==
    /\ \A a, b \in tickets : a.thread_id = b.thread_id => a = b
    /\ task[1].op = "insert"
        => /\ \A r \in task[1].before.tickets : r \in tickets
           /\ (\E r \in task[1].before.tickets : r.thread_id = task[1].thread[1])
                => tickets = task[1].before.tickets

\* an INSERT was run for the thread_id of a row that had been closed and claimed
C7_Witness ==
    /\ task[1].op = "insert"
    /\ \E r \in task[1].before.tickets :
        /\ r.thread_id = task[1].thread[1]
        /\ r.status = "closed" /\ r.claimed_by # None

\* C8: opening the delete flow and cancel request nothing and leave the
\* table as it was; no handler but confirm requests a delete or writes
\* 'deleted'; and confirm pressed by an actor who is not staff at that time
\* is denied, with no delete request, the thread alive and the table as it
\* was.
C8_TwoStepDelete ==
    \A t \in Tasks :
        /\ task[t].op \in {"delete_flow", "cancel"}
            => task[t].calls = {} /\ tickets = task[t].before.tickets
        /\ task[t].op \notin {"idle", "confirm"}
            => /\ "delete" \notin task[t].calls
               /\ \A r \in tickets : r.status = "deleted"
                    => \E q \in task[t].before.tickets :
                            q.thread_id = r.thread_id /\ q.status = "deleted"
        /\ (task[t].op = "confirm" /\ ~task[t].staff)
            => /\ task[t].pc = "done"
               /\ task[t].ack = "Permission denied"
               /\ task[t].calls = {}
               /\ thr[task[t].ch].state = "live"
               /\ tickets = task[t].before.tickets

\* confirm is pressed on a ticket's thread by the actor the confirmation was
\* shown to, whose staff role has been taken since, and is denied
C8_Witness ==
    \E t \in Tasks :
        /\ task[t].op = "confirm" /\ ~task[t].staff
        /\ View("confirm", task[t].actor, task[t].ch) \in views
        /\ RowOf(task[t].ch) # {}
        /\ task[t].ack = "Permission denied"

\* C9: for the member list of the staff role, of length n, and the limit L,
\* the adds attempted are the first min(n, L) members, each once and in role
\* order, whatever adds fail, and the fallback flag is set iff n > L.
C9_StaffAddsAndFallback ==
    \A t \in Tasks :
        (task[t].op = "select" /\ task[t].thread # None)
        => LET n == Len(roleMembers)
               k == IF n < limit THEN n ELSE limit
           IN  /\ task[t].pc = "add_staff"
                    => task[t].attempts = [j \in 1..(task[t].i - 1) |-> roleMembers[j]]
               /\ task[t].pc \in {"welcome", "done"}
                    => /\ task[t].attempts = [j \in 1..k |-> roleMembers[j]]
                       /\ task[t].fallback <=> n > limit

\* a role of three members with a limit of two: two adds, one of them
\* failed, and the fallback flag set
C9_Witness ==
    \E t \in Tasks :
        /\ task[t].op = "select" /\ task[t].pc = "done"
        /\ Len(roleMembers) = 3 /\ limit = 2
        /\ Len(task[t].attempts) = 2 /\ task[t].failed = 1
        /\ task[t].fallback

C20_CloseRequiresTicket ==
    \A t \in Tasks :
        (task[t].op = "close" /\ IsThread(task[t].ch) /\ task[t].row = None)
        => /\ task[t].pc = "done"
           /\ task[t].ack \in Rejections
           /\ "archive" \notin task[t].calls

\* what the handlers leave behind when run one after the other (an
\* invariant of Spec): a row is 'deleted' exactly when its thread is
\* deleted, and 'closed' only on an archived thread
SerialOutcome(r) ==
    /\ (thr[r.thread_id].state = "deleted") <=> (r.status = "deleted")
    /\ r.status = "closed" => thr[r.thread_id].archived

\* C19: whatever the interleaving of two handlers on one ticket at their
\* awaits, once both are over the row and the thread are as some run of the
\* two handlers one after the other leaves them (stated for a close of an
\* existing ticket that has answered while no other handler is in flight).
C19_InterleavingsAreSerial ==
    \A t \in Tasks :
        (/\ task[t].op = "close" /\ task[t].pc = "done" /\ task[t].row # None
         /\ \A s \in Tasks \ {t} : task[s].pc = "idle")
        => \A r \in RowOf(task[t].ch) : SerialOutcome(r)

\* ^[a-z0-9_-]{1,12}-[a-z0-9]{1,8}-[0-9]{4}$
MatchesNamePattern(str) ==
    \E i, j \in 1..Len(str) :
        /\ i < j /\ str[i] = "-" /\ str[j] = "-"
        /\ i - 1 \in 1..12
        /\ \A k \in 1..(i - 1) : str[k] \in AsciiLower \cup AsciiDigits \cup {"_", "-"}
        /\ j - i - 1 \in 1..8
        /\ \A k \in (i + 1)..(j - 1) : str[k] \in AsciiLower \cup AsciiDigits
        /\ Len(str) - j = 4
        /\ \A k \in (j + 1)..Len(str) : str[k] \in AsciiDigits

\* C11: for every category of the menu and every username, non-ASCII
\* letters, punctuation and underscores included, thread_safe_name returns
\* a name matching ^[a-z0-9_-]{1,12}-[a-z0-9]{1,8}-[0-9]{4}$.
C11_NameMatchesPattern ==
    (eval.f = "thread_safe_name" /\ eval.res # None) => MatchesNamePattern(eval.res[1])

C13_TranscriptNeverDropped ==
    \A t \in Tasks :
        (/\ task[t].pc = "done" /\ task[t].row # None
         /\ \/ task[t].op = "close" /\ task[t].ack = "Closed"
            \/ task[t].op = "transcript" /\ task[t].ack \notin Rejections)
        => /\ task[t].transcript \in {"posted", "dm", "failed"}
           /\ task[t].transcript = "posted"
                => get_config(config, "transcript_channel_id") # None
           /\ task[t].transcript = "failed" => task[t].ack \in {"Failed", "Error"}

TextChannelIds == {ParentChannel}
\* the submission passed on_submit's checks: it was carried out, or the
\* transcript was at least requested
PassedChecks(t) == task[t].ack \in {"Configured", "Sent"} \/ "history" \in task[t].calls
Trimmed(t) == strip(task[t].arg)
Inner(raw) == SubSeq(raw, 3, Len(raw) - 1)
IsMentionOf(raw) == Len(raw) >= 3 /\ raw[1] = "<" /\ raw[2] = "#" /\ raw[Len(raw)] = ">"
\* digits, with the sign and the blanks Python's int() lets through
IsIntLiteral(str) ==
    LET lit == strip(str)
    IN  IsDigits(lit) \/ (Len(lit) >= 2 /\ lit[1] \in {"+", "-"} /\ IsDigits(Tail(lit)))
RejectedUnchanged(t) ==
    /\ config = task[t].before.config
    /\ task[t].transcript = "none"
    /\ "history" \notin task[t].calls

\* C17 (as stated): a submission passes only if its text is a <#id> mention,
\* a bare numeric id or exactly the name of a text channel, and the channel
\* is a text channel; every other submission is answered 'Invalid channel'
\* with config unchanged and no transcript sent.
C17_ModalAcceptsOnlyListed ==
    \A t \in Tasks :
        (task[t].op = "modal" /\ task[t].pc = "done")
        => IF PassedChecks(t)
           THEN /\ \/ IsMentionOf(Trimmed(t)) /\ IsDigits(Inner(Trimmed(t)))
                   \/ IsDigits(Trimmed(t))
                   \/ Trimmed(t) = ChannelName(ParentChannel)
                /\ task[t].thread[1] \in TextChannelIds
           ELSE task[t].ack = "Invalid channel" /\ RejectedUnchanged(t)

\* C17 (amended): a submission passes only if its text, blanks trimmed, is
\* <#n> or n with n an integer literal as int() reads it, or the name of a
\* text channel after any leading '#', and the channel it resolves to is a
\* text channel; every other submission is answered 'Invalid channel' or,
\* when the id resolves to no channel, 'Error', with config unchanged and no
\* transcript requested; config only ever names a text channel.
C17_ModalAcceptsTextChannel ==
    /\ \A t \in Tasks :
        (task[t].op = "modal" /\ task[t].pc = "done")
        => IF PassedChecks(t)
           THEN /\ \/ IsMentionOf(Trimmed(t)) /\ IsIntLiteral(Inner(Trimmed(t)))
                   \/ IsIntLiteral(Trimmed(t))
                   \/ lstrip(Trimmed(t), "#") = ChannelName(ParentChannel)
                /\ task[t].thread[1] \in TextChannelIds
           ELSE task[t].ack \in {"Invalid channel", "Error"} /\ RejectedUnchanged(t)
    /\ config["transcript_channel_id"] # None
        => config["transcript_channel_id"][1] \in TextChannelIds

\* '#g', the text channel's name behind a '#', sets the default channel
C17_Witness ==
    \E t \in Tasks :
        /\ task[t].op = "modal" /\ task[t].arg = << "#", "g" >>
        /\ task[t].ack = "Configured"
        /\ config["transcript_channel_id"] = Some(ParentChannel)

HandlerOf(custom_id) ==
    CASE custom_id = "ticket_close_v2" -> "close"
      [] custom_id = "ticket_claim_v2" -> "claim"
      [] custom_id = "ticket_transcript_v2" -> "transcript"
      [] custom_id = "ticket_lock_v2" -> "lock"
      [] OTHER -> "none"

\* C14: in every run of the process, the first included and every restart
\* after it, the Close, Claim, Transcript and Lock controls are in the view
\* store once on_ready has run, a press on one is never ignored, and it is
\* handled by that control's handler for the user and the thread of the
\* press; close, claim and transcript work on the row the database holds
\* for that thread.
C14_ControlsSurviveRestart ==
    /\ proc.up => ThreadControls \subseteq proc.registry
    /\ proc.dropped \cap ThreadControls = {}
    /\ \A t \in Tasks :
        (/\ task[t].pc # "idle" /\ proc.inbox # None
         /\ proc.inbox[1].custom_id \in ThreadControls)
        => /\ task[t].op = HandlerOf(proc.inbox[1].custom_id)
           /\ task[t].ch = proc.inbox[1].channel
           /\ task[t].actor = proc.inbox[1].user
           /\ task[t].op \in {"close", "claim", "transcript"}
                => /\ task[t].row # None
                   /\ task[t].row[1].thread_id = task[t].ch
                   /\ task[t].row[1].thread_id \in { r.thread_id : r \in tickets }

\* Close pressed after a restart, on a ticket opened before it, has closed
\* the ticket
C14_Witness ==
    /\ proc.runs = 2 /\ proc.inbox # None
    /\ proc.inbox[1].custom_id = "ticket_close_v2"
    /\ proc.inbox[1].channel \in proc.prior
    /\ \E t \in Tasks :
        /\ task[t].op = "close" /\ task[t].ack = "Closed"
        /\ \E r \in tickets : r.thread_id = task[t].ch /\ r.status = "closed"

\* C18: the config entry changes only when a set-default submission is
\* carried out; in particular a restart leaves it as it was.
C18_ConfigChangesOnlyBySet ==
    [][ config' # config
        => \E t \in Tasks : /\ task[t].pc = "idle"
                            /\ task'[t].op = "modal" /\ task'[t].ack = "Configured" ]_vars

\* C15: a handler that has returned has sent exactly one acknowledgment.
C15_ExactlyOneAcknowledgment ==
    \A t \in Tasks : task[t].pc = "done" => task[t].acks = 1

\* the calls C16 lists as slow: thread creation, thread edit, thread
\* delete, transcript generation
SlowCalls == { "create_thread", "archive", "lock", "delete", "history" }

\* C16: a handler that has requested a slow operation has deferred the
\* interaction before.
C16_DeferBeforeSlowOperation ==
    \A t \in Tasks : task[t].calls \cap SlowCalls # {} => task[t].deferred

\* C21: a lock/unlock by staff that has answered either reports 'Done' with
\* the thread's locked attribute negated, or reports 'Error' with the
\* attribute as it was before the call.
C21_LockToggleAllOrNothing ==
    \A t \in Tasks :
        (task[t].op = "lock" /\ task[t].pc = "done" /\ task[t].ack \in {"Done", "Error"})
        => /\ task[t].ack = "Done" => thr[task[t].ch].locked = task[t].new_locked
           /\ task[t].ack = "Error" => thr[task[t].ch].locked = ~task[t].new_locked

\* C22: a transcript posted through the admin panel was posted for an actor
\* who was staff when the button's handler ran.
C22_PanelActionsNeedStaff ==
    \A t \in Tasks :
        (task[t].op = "post_default" /\ task[t].transcript = "posted") => task[t].staff

\* C28: when the handler of 'Set Default Transcript Channel' or of 'Send
\* Transcript' has answered 'Modal opened', the channel modal has been
\* presented to the actor.
C28_ModalPresented ==
    \A t \in Tasks :
        (task[t].pc = "done" /\ task[t].ack = "Modal opened")
        => \/ /\ task[t].op = "set_default_button"
              /\ View("modal_set_default", task[t].actor, task[t].ch) \in views
           \/ /\ task[t].op = "send_button"
              /\ View("modal_send", task[t].actor, task[t].ch) \in views

\* C23: every control the program has rendered carries one of the fixed
\* handler tags, which name a handler and no thread.
C23_ControlIdsAreHandlerTags == Rendered \subseteq WithCallback

\* C24: every two-byte value gives a suffix in 1000..9999, and every suffix
\* is given by the same number of two-byte values.
C24_SuffixUniform ==
    (eval.f = "suffix" /\ eval.res # None)
    => /\ \A rnd \in RandomValues : suffix(rnd) \in 1000..9999
       /\ eval.res[1] = SuffixCount(9999)

\* C25: claimed_by of a ticket changes only in a step taken while the
\* ticket's status is 'open'.
C25_ClaimOnlyWhileOpen ==
    [][ \A r \in tickets : \A q \in tickets' :
            (q.thread_id = r.thread_id /\ q.claimed_by # r.claimed_by)
            => r.status = "open" ]_vars

\* C26: in every state closed_at is absent exactly for the tickets with
\* status 'open', and no step clears a closed_at that has a value.
C26_ClosedAtFollowsStatus ==
    /\ [](\A r \in tickets : (r.closed_at = None) <=> (r.status = "open"))
    /\ [][ \A r \in tickets : \A q \in tickets' :
            (q.thread_id = r.thread_id /\ r.closed_at # None) => q.closed_at # None ]_vars

\* a ticket closed and then claimed: closed_at was set by the close and is
\* still set after the UPDATE of the claim
C26_Witness ==
    \E t \in Tasks : \E r \in tickets :
        /\ task[t].op = "claim" /\ task[t].ack = "Ticket claimed"
        /\ task[t].row[1].status = "closed" /\ task[t].row[1].closed_at # None
        /\ r.thread_id = task[t].ch /\ r.claimed_by = Some(task[t].actor)
        /\ r.status = "closed" /\ r.closed_at = task[t].row[1].closed_at

SameIdentity(r, q) ==
    /\ q.id = r.id /\ q.thread_id = r.thread_id /\ q.channel_id = r.channel_id
    /\ q.user_id = r.user_id /\ q.choice = r.choice /\ q.created_at = r.created_at

\* the handlers C27 says change no ticket record
FrameOps == { "lock", "add", "remove", "transcript", "panel", "delete_flow" }

\* C27: in every step each record is still there with its id, thread_id,
\* channel_id, creator, category and created_at; a record whose status,
\* closed_at or claimed_by changed is the record of the thread a close, claim
\* or confirm is running in; and a step of lock/unlock, add, remove,
\* transcript or the admin panel leaves the table as it is.
C27_Frame ==
    [][ /\ \A r \in tickets : \E q \in tickets' :
            /\ SameIdentity(r, q)
            /\ q # r => \E t \in Tasks :
                            /\ task'[t] # task[t]
                            /\ task'[t].op \in {"close", "claim", "confirm"}
                            /\ task'[t].ch = r.thread_id
        /\ (\E t \in Tasks : task'[t] # task[t] /\ task'[t].op \in FrameOps)
            => tickets' = tickets ]_vars

\* a ticket was opened and claimed beside the earlier one: its row carries
\* the claim, the earlier ticket's row is as it was
C27_Witness ==
    \E t \in Tasks :
        /\ task[t].op = "claim" /\ task[t].ack = "Ticket claimed"
        /\ \E r \in tickets : r.thread_id = task[t].ch /\ r.claimed_by = Some(task[t].actor)
        /\ \E r \in tickets : r.thread_id = OldThread /\ r.claimed_by = None

====
